---- MODULE Spec2Model ----
(***************************************************************************)
(* Model of muv: MUV descriptors (src/muv/descriptors.py) and the spread   *)
(* statistics (src/muv/spatial.py).                                        *)
(*                                                                         *)
(* Four specifications share one set of variables:                         *)
(*   SpecRings    MUVDescriptors.count_ring_systems, ring by ring          *)
(*   SpecDesc     MUVDescriptors.calculate_descriptors                     *)
(*   SpecSpatial  spread, called repeatedly on one caller-owned matrix,    *)
(*                and sum_of_spreads over the distance matrices            *)
(*   SpecSweep    sum_of_spreads over coeff, min_t, max_t and step         *)
(* Reals are modelled exactly: a distance is a natural number or Inf, a    *)
(* threshold and a result are fractions <<numerator, denominator>> with a  *)
(* positive denominator.  Floating-point rounding is outside the model.    *)
(***************************************************************************)
EXTENDS Integers, Sequences, FiniteSets

VARIABLES
    pc,              \* position of the modelled call
    rings,           \* count_ring_systems: the rings ri.AtomRings() has yielded so far
    ring_atoms,      \* count_ring_systems: local ring_atoms
    n_ring_systems,  \* count_ring_systems: local n_ring_systems
    mol,             \* calculate_descriptors: the molecule after Chem.AddHs
    desc,            \* calculate_descriptors: the returned vector
    d,               \* spread / sum_of_spreads: the caller's array d
    d_in,            \* the entries d held when it was first passed in
    diff,            \* sum_of_spreads: the caller's array diff, or None
    diff_in,         \* the entries diff held when it was passed in
    calls,           \* spread: the completed calls, <<t, outcome>> each
    args,            \* sum_of_spreads: coeff, min_t, max_t, step, and what diff is
    thresholds,      \* sum_of_spreads: local thresholds
    n_done,          \* sum_of_spreads: thresholds the comprehension has consumed
    acc,             \* sum_of_spreads: sum of the list elements built so far
    outcome          \* sum_of_spreads: the value returned or the exception raised

vars == <<pc, rings, ring_atoms, n_ring_systems, mol, desc,
          d, d_in, diff, diff_in, calls, args, thresholds, n_done, acc,
          outcome>>

\* None, for an argument that holds a sequence when it is supplied: step is
\* <<>> or <<value>>, diff is <<>> or an array.
None == <<>>
\* No value returned and no exception raised yet.
NoOutcome == [kind |-> "none", val |-> <<>>, err |-> ""]

\* ---------------------------------------------------------------- bounds

\* atom indices a ring may hold: 1..MaxAtom
MaxAtom == 6
\* rings a molecule's RingInfo yields
MaxRings == 3

\* ------------------------------------------------ count_ring_systems

\* The rings RingInfo can yield, as sets of atom indices: the rings of three
\* atoms, the smallest a molecule has.  Two of them are disjoint, share one
\* atom (spiro) or share two (fused).
RingChoices == {r \in SUBSET (1..MaxAtom) : Cardinality(r) = 3}

\* A mutant: the seen-set is updated only by a ring that was counted.
ProcessRing_UpdateOnlyWhenNew(st, ring) ==
    IF st.ring_atoms \cap ring = {}
    THEN [n_ring_systems |-> st.n_ring_systems + 1,
          ring_atoms |-> st.ring_atoms \cup ring]
    ELSE st

\* A mutant: the test for a new ring system is inverted.
ProcessRing_CountOverlap(st, ring) ==
    [n_ring_systems |-> IF st.ring_atoms \cap ring # {}
                        THEN st.n_ring_systems + 1
                        ELSE st.n_ring_systems,
     ring_atoms |-> st.ring_atoms \cup ring]

\* One pass of the loop body, descriptors.py lines 112-115.
ProcessRing(st, ring) ==
    LET this == ring IN
    [n_ring_systems |-> IF Cardinality(st.ring_atoms \cap this) = 0
                        THEN st.n_ring_systems + 1
                        ELSE st.n_ring_systems,
     ring_atoms |-> st.ring_atoms \cup this]

\* The locals before the loop, descriptors.py lines 108-109.
RingStart == [n_ring_systems |-> 0, ring_atoms |-> {}]

RECURSIVE RingLoop(_, _, _)
\* The loop of descriptors.py line 111 over rs[i..].
RingLoop(st, rs, i) ==
    IF i > Len(rs) THEN st ELSE RingLoop(ProcessRing(st, rs[i]), rs, i + 1)

\* count_ring_systems as a function of the rings RingInfo yields.
CountRingSystems(rs) == RingLoop(RingStart, rs, 1).n_ring_systems

\* count_ring_systems is entered: lines 108-110.
RingEnter ==
    /\ pc = "ring_call"
    /\ pc' = "ring_loop"
    /\ n_ring_systems' = RingStart.n_ring_systems
    /\ ring_atoms' = RingStart.ring_atoms
    /\ UNCHANGED <<rings, mol, desc, d, d_in, diff, diff_in, calls, args, thresholds, n_done, acc,
          outcome>>

\* The loop takes the next ring of ri.AtomRings(): lines 111-115.
RingStep ==
    /\ pc = "ring_loop"
    /\ Len(rings) < MaxRings
    /\ \E ring \in RingChoices :
          LET st == ProcessRing([n_ring_systems |-> n_ring_systems,
                                 ring_atoms |-> ring_atoms], ring) IN
          /\ rings' = Append(rings, ring)
          /\ n_ring_systems' = st.n_ring_systems
          /\ ring_atoms' = st.ring_atoms
    /\ UNCHANGED <<pc, mol, desc, d, d_in, diff, diff_in, calls, args, thresholds, n_done, acc,
          outcome>>

\* ri.AtomRings() is exhausted and the counter is returned: line 116.
RingReturn ==
    /\ pc = "ring_loop"
    /\ pc' = "ring_done"
    /\ UNCHANGED <<rings, ring_atoms, n_ring_systems, mol, desc,
                   d, d_in, diff, diff_in, calls, args, thresholds, n_done, acc,
          outcome>>

\* Values of the variables an entry point does not use.
NoMol == [atoms |-> <<>>, rings |-> <<>>, n_acc |-> 0, n_don |-> 0, c_log_p |-> 0]
NoArgs == [coeff |-> 0, min_t |-> 0, max_t |-> 0, step |-> None, diff |-> "None"]

InitRings ==
    /\ pc = "ring_call"
    /\ rings = <<>>
    /\ ring_atoms = {}
    /\ n_ring_systems = 0
    /\ mol = NoMol
    /\ desc = <<>>
    /\ d = None /\ d_in = None
    /\ diff = None /\ diff_in = None
    /\ calls = <<>>
    /\ args = NoArgs
    /\ thresholds = <<>>
    /\ n_done = 0
    /\ acc = <<0, 1>>
    /\ outcome = NoOutcome

NextRings == RingEnter \/ RingStep \/ RingReturn

SpecRings == InitRings /\ [][NextRings]_vars

\* ---- the ring systems of the glossary: rings merged through shared atoms

\* The atom sets of the ring systems of parts, with ring merged in.
MergeRing(parts, ring) ==
    LET hit == {p \in parts : p \cap ring # {}} IN
    (parts \ hit) \cup {ring \cup UNION hit}

RECURSIVE RingSystems(_, _)
\* The atom sets of the connected components of rs[1..i].
RingSystems(rs, i) ==
    IF i = 0 THEN {} ELSE MergeRing(RingSystems(rs, i - 1), rs[i])

NumRingSystems(rs) == Cardinality(RingSystems(rs, Len(rs)))

\* The atoms of the rings before position i.
Earlier(rs, i) == UNION {rs[j] : j \in 1..(i - 1)}

\* The rings that share no atom with the union of their predecessors.
NewRings(rs) == {i \in 1..Len(rs) : rs[i] \cap Earlier(rs, i) = {}}

\* Ring i bridges: it meets two earlier rings that lie in different ring
\* systems of the rings before it.
Bridges(rs, i) ==
    \E a, b \in RingSystems(rs, i - 1) :
        a # b /\ a \cap rs[i] # {} /\ b \cap rs[i] # {}

C7_CountsComponents ==
    pc = "ring_done" => n_ring_systems = NumRingSystems(rings)

\* C9 as stated: when a bridging ring comes after its two separately
\* counted neighbours, the returned count is below the number of
\* connected components.
C9_Undercounts ==
    (pc = "ring_done" /\ \E i \in 1..Len(rings) : Bridges(rings, i))
        => n_ring_systems < NumRingSystems(rings)

\* C9 amended: the count is never below the number of connected
\* components, and it is strictly above it when a bridging ring comes
\* after its two separately counted neighbours.
C9_Overcounts ==
    pc = "ring_done" =>
        /\ n_ring_systems >= NumRingSystems(rings)
        /\ (\E i \in 1..Len(rings) : Bridges(rings, i))
              => n_ring_systems > NumRingSystems(rings)

\* C9 witness: two disjoint rings and then a ring bridging them: counted
\* 2, one connected component.
C9_Witness ==
    /\ pc = "ring_done"
    /\ Len(rings) = 3
    /\ Bridges(rings, 3)
    /\ n_ring_systems = 2
    /\ NumRingSystems(rings) = 1

\* ------------------------------------------------ calculate_descriptors

\* atoms of a molecule (hydrogens included)
MaxMolAtoms == 2

\* Element symbols as the sequences of their character codes.
Sym_B  == <<66>>
Sym_Br == <<66, 114>>
Sym_C  == <<67>>
Sym_Cl == <<67, 108>>
Sym_F  == <<70>>
Sym_I  == <<73>>
Sym_N  == <<78>>
Sym_O  == <<79>>
Sym_P  == <<80>>
Sym_S  == <<83>>

\* The dict atoms of descriptors.py lines 43-44: symbol -> atomic number.
TrackedAtoms ==
    {<<Sym_B, 5>>, <<Sym_Br, 35>>, <<Sym_C, 6>>, <<Sym_Cl, 17>>, <<Sym_F, 9>>,
     <<Sym_I, 53>>, <<Sym_N, 7>>, <<Sym_O, 8>>, <<Sym_P, 15>>, <<Sym_S, 16>>}

\* atoms.keys()
AtomKeys == {e[1] : e \in TrackedAtoms}

\* atoms[name]
AtomicNumOf(name) == (CHOOSE e \in TrackedAtoms : e[1] = name)[2]

\* Python's order on strings: by code point, a proper prefix first.
StrLess(a, b) ==
    \E k \in 1..(Len(a) + 1) :
        /\ k <= Len(b)
        /\ \A j \in 1..(k - 1) : a[j] = b[j]
        /\ (k = Len(a) + 1 \/ a[k] < b[k])

\* Python's order on the strings of S, as the set of pairs a < b.
StrOrder(S) == {p \in S \X S : StrLess(p[1], p[2])}

RECURSIVE SortedBy(_, _)
\* The elements of S in ascending order of the strict total order lt.
SortedBy(S, lt) ==
    IF S = {} THEN <<>>
    ELSE LET m == CHOOSE x \in S : \A y \in S \ {x} : <<x, y>> \in lt
         IN <<m>> \o SortedBy(S \ {m}, lt)

\* A mutant: the element fields follow ascending atomic number.
SortedAtomKeys_ByAtomicNum ==
    SortedBy(AtomKeys,
             {p \in AtomKeys \X AtomKeys : AtomicNumOf(p[1]) < AtomicNumOf(p[2])})

\* sorted(atoms.keys()), line 50.
SortedAtomKeys == SortedBy(AtomKeys, StrOrder(AtomKeys))

\* rdkit.Chem.ChiralType
ChiralTags == {"CHI_UNSPECIFIED", "CHI_TETRAHEDRAL_CW", "CHI_TETRAHEDRAL_CCW",
               "CHI_OTHER"}

\* The test of lines 69-70.
IsChiral(tag) == tag \in {"CHI_TETRAHEDRAL_CW", "CHI_TETRAHEDRAL_CCW"}

RECURSIVE AtomCountsFrom(_, _, _)
\* The loop of atom_counts, lines 91-95, over atoms[i..].
AtomCountsFrom(counts, atoms, i) ==
    IF i > Len(atoms) THEN counts
    ELSE LET z == atoms[i].z
             c0 == IF z \in DOMAIN counts
                   THEN counts
                   ELSE [k \in DOMAIN counts \cup {z} |->
                            IF k = z THEN 0 ELSE counts[k]]
         IN AtomCountsFrom([c0 EXCEPT ![z] = c0[z] + 1], atoms, i + 1)

\* atom_counts(mol): atomic number -> number of atoms.
AtomCounts(m) == AtomCountsFrom(<<>>, m.atoms, 1)

RECURSIVE ElementFields(_, _, _)
\* The loop of lines 50-54 over names[i..].
ElementFields(names, counts, i) ==
    IF i > Len(names) THEN <<>>
    ELSE LET z == AtomicNumOf(names[i]) IN
         <<IF z \in DOMAIN counts THEN counts[z] ELSE 0>>
            \o ElementFields(names, counts, i + 1)

\* mol.GetNumAtoms()
GetNumAtoms(m) == Len(m.atoms)

\* mol.GetNumHeavyAtoms(): the atoms that are not hydrogen
GetNumHeavyAtoms(m) == Cardinality({i \in 1..Len(m.atoms) : m.atoms[i].z > 1})

\* The generator sum of lines 66-71.
NChiral(m) == Cardinality({i \in 1..Len(m.atoms) : IsChiral(m.atoms[i].tag)})

\* calculate_descriptors(mol), lines 42-78, on the molecule with hydrogens.
CalculateDescriptors(m) ==
    LET counts == AtomCounts(m)
        total == GetNumAtoms(m)
        heavy == GetNumHeavyAtoms(m)
    IN  <<total, heavy>>
        \o ElementFields(SortedAtomKeys, counts, 1)
        \o <<m.n_acc, m.n_don, m.c_log_p, NChiral(m), CountRingSystems(m.rings)>>

\* The atomic numbers a modelled atom may have: hydrogen, the ten tracked
\* elements and silicon, which is not tracked.
AtomicNums == {1, 14} \cup {e[2] : e \in TrackedAtoms}

AtomChoices == [z : AtomicNums, tag : ChiralTags]

\* The sequences over S of length at most n.
SeqsUpTo(S, n) == UNION {[1..k -> S] : k \in 0..n}

\* The ring lists of a molecule of n atoms that the model draws: none, one
\* ring over all atoms, two rings at the first and the last atom.
MolRingLists(n) ==
    IF n = 0 THEN {<<>>} ELSE {<<>>, <<1..n>>, <<{1}, {n}>>}

\* What the toolkit computes for a molecule: CalcNumHBA, CalcNumHBD and the
\* first of CalcCrippenDescriptors.
ToolkitScalars == {<<0, 0, 0>>, <<1, 2, -3>>}

DescCall ==
    /\ pc = "desc_call"
    /\ pc' = "desc_done"
    /\ desc' = CalculateDescriptors(mol)
    /\ UNCHANGED <<rings, ring_atoms, n_ring_systems, mol,
                   d, d_in, diff, diff_in, calls, args, thresholds, n_done, acc,
          outcome>>

InitDesc ==
    /\ pc = "desc_call"
    /\ rings = <<>>
    /\ ring_atoms = {}
    /\ n_ring_systems = 0
    /\ \E atoms \in SeqsUpTo(AtomChoices, MaxMolAtoms) :
       \E rl \in MolRingLists(Len(atoms)) :
       \E sc \in ToolkitScalars :
          mol = [atoms |-> atoms, rings |-> rl,
                 n_acc |-> sc[1], n_don |-> sc[2], c_log_p |-> sc[3]]
    /\ desc = <<>>
    /\ d = None /\ d_in = None
    /\ diff = None /\ diff_in = None
    /\ calls = <<>>
    /\ args = NoArgs
    /\ thresholds = <<>>
    /\ n_done = 0
    /\ acc = <<0, 1>>
    /\ outcome = NoOutcome

NextDesc == DescCall

SpecDesc == InitDesc /\ [][NextDesc]_vars

\* The number of atoms of the molecule with atomic number z.
NumWithZ(m, z) == Cardinality({i \in 1..Len(m.atoms) : m.atoms[i].z = z})

\* C8: the vector has exactly 17 fields in the order total, heavy, B, Br,
\* C, Cl, F, I, N, O, P, S, acceptors, donors, lipophilicity, chiral
\* centers, ring systems; each element field is the number of atoms of
\* that element's atomic number; the chiral field counts the atoms tagged
\* tetrahedral clockwise or counter-clockwise.
C8_DescriptorVector ==
    pc = "desc_done" =>
        /\ Len(desc) = 17
        /\ desc[1] = Len(mol.atoms)
        /\ desc[2] = Cardinality({i \in 1..Len(mol.atoms) : mol.atoms[i].z # 1})
        /\ desc[3] = NumWithZ(mol, 5)
        /\ desc[4] = NumWithZ(mol, 35)
        /\ desc[5] = NumWithZ(mol, 6)
        /\ desc[6] = NumWithZ(mol, 17)
        /\ desc[7] = NumWithZ(mol, 9)
        /\ desc[8] = NumWithZ(mol, 53)
        /\ desc[9] = NumWithZ(mol, 7)
        /\ desc[10] = NumWithZ(mol, 8)
        /\ desc[11] = NumWithZ(mol, 15)
        /\ desc[12] = NumWithZ(mol, 16)
        /\ desc[13] = mol.n_acc
        /\ desc[14] = mol.n_don
        /\ desc[15] = mol.c_log_p
        /\ desc[16] = Cardinality({i \in 1..Len(mol.atoms) :
                          mol.atoms[i].tag \in {"CHI_TETRAHEDRAL_CW",
                                                "CHI_TETRAHEDRAL_CCW"}})
        /\ desc[17] = CountRingSystems(mol.rings)

\* C8 witness: one bromine atom tagged counter-clockwise beside a hydrogen:
\* the element fields read 0,1,0,0,0,0,0,0,0,0 and one chiral center.
C8_Witness ==
    /\ pc = "desc_done"
    /\ mol.atoms = <<[z |-> 35, tag |-> "CHI_TETRAHEDRAL_CCW"],
                     [z |-> 1, tag |-> "CHI_UNSPECIFIED"]>>
    /\ SubSeq(desc, 3, 12) = <<0, 1, 0, 0, 0, 0, 0, 0, 0, 0>>
    /\ desc[16] = 1

\* ------------------------------------------------------------- spread

\* entries a distance matrix may hold: rows * columns <= MaxCells
MaxCells == 4
\* distances are 0..MaxDist
MaxDist == 1
\* calls of spread on one matrix
MaxCalls == 2

\* np.inf: distances are naturals here, so a negative number stands for it;
\* it equals itself and no distance, and Lt puts it below no threshold.
Inf == 0 - 1

\* The r x c arrays with entries in 0..maxd and at most cells entries.
MatricesUpTo(cells, maxd) ==
    UNION {[1..sh[1] -> [1..sh[2] -> 0..maxd]] :
              sh \in {p \in (1..cells) \X (1..cells) : p[1] * p[2] <= cells}}

NRows(m) == Len(m)
NCols(m) == Len(m[1])

\* d < t for an entry and a threshold <<numerator, denominator>>; inf is
\* below no finite threshold.
Lt(e, t) == e # Inf /\ e * t[2] < t[1]

\* (D == D.T).all() of scipy's is_valid_dm under NumPy's rules: compared
\* entry by entry when the shapes agree, a 1 x n row against its n x 1
\* transpose (and an n x 1 column against its row) is broadcast to n x n,
\* any other pair of shapes cannot be compared.
EqualsTranspose(m) ==
    IF NRows(m) = NCols(m)
    THEN \A i \in 1..NRows(m), j \in 1..NCols(m) : m[i][j] = m[j][i]
    ELSE IF NRows(m) = 1 \/ NCols(m) = 1
    THEN \A i, k \in 1..NRows(m), j, l \in 1..NCols(m) : m[i][j] = m[k][l]
    ELSE FALSE

\* (D[range(s[0]), range(s[0])] == 0).all() of is_valid_dm; an index
\* outside the columns raises, which is_valid_dm turns into False.
ZeroDiagonal(m) ==
    /\ NRows(m) <= NCols(m)
    /\ \A i \in 1..NRows(m) : m[i][i] = 0

\* scipy.spatial.distance.is_valid_dm(d), line 47.
IsValidDm(m) == EqualsTranspose(m) /\ ZeroDiagonal(m)

\* The array with np.inf on its diagonal.
WithInfDiagonal(m) ==
    [i \in 1..NRows(m) |-> [j \in 1..NCols(m) |->
        IF i = j THEN Inf ELSE m[i][j]]]

\* A mutant: the diagonal is overwritten in the caller's array.
MaskDiagonal_InPlace(heap) ==
    [heap |-> WithInfDiagonal(heap), local |-> WithInfDiagonal(heap)]

\* Lines 48-49: d is rebound to a copy and the copy's diagonal is set.
MaskDiagonal(heap) ==
    [heap |-> heap, local |-> WithInfDiagonal(heap)]

\* np.mean(np.any(d < t, axis=1)), line 50, as <<numerator, denominator>>.
MeanAnyBelow(m, t) ==
    <<Cardinality({i \in 1..NRows(m) : \E j \in 1..NCols(m) : Lt(m[i][j], t)}),
      NRows(m)>>

Value(q) == [kind |-> "value", val |-> q, err |-> ""]
Raised(e) == [kind |-> "error", val |-> <<>>, err |-> e]

\* spread(d, t) on the caller's array heap: what the array holds after the
\* call, and the value returned or the exception raised.
\* np.diag_indices_from raises ValueError unless all dimensions are equal.
Spread(heap, t) ==
    IF IsValidDm(heap)
    THEN IF NRows(heap) # NCols(heap)
         THEN [heap |-> heap, outcome |-> Raised("ValueError")]
         ELSE LET a == MaskDiagonal(heap) IN
              [heap |-> a.heap, outcome |-> Value(MeanAnyBelow(a.local, t))]
    ELSE [heap |-> heap, outcome |-> Value(MeanAnyBelow(heap, t))]

\* the thresholds a caller passes to spread
SpreadThresholds == {<<n, 1>> : n \in (0 - 1)..(MaxDist + 1)}

\* One call spread(d, t) by the owner of d.
SpreadCall ==
    /\ pc = "spread"
    /\ Len(calls) < MaxCalls
    /\ \E t \in SpreadThresholds :
          LET r == Spread(d, t) IN
          /\ d' = r.heap
          /\ calls' = Append(calls, [t |-> t, outcome |-> r.outcome])
    /\ UNCHANGED <<pc, rings, ring_atoms, n_ring_systems, mol, desc,
                   d_in, diff, diff_in, args, thresholds, n_done, acc, outcome>>

InitSpread ==
    /\ pc = "spread"
    /\ rings = <<>>
    /\ ring_atoms = {}
    /\ n_ring_systems = 0
    /\ mol = NoMol
    /\ desc = <<>>
    /\ d \in MatricesUpTo(MaxCells, MaxDist)
    /\ d_in = d
    /\ diff = None /\ diff_in = None
    /\ calls = <<>>
    /\ args = NoArgs
    /\ thresholds = <<>>
    /\ n_done = 0
    /\ acc = <<0, 1>>
    /\ outcome = NoOutcome

\* ----------------------------------------------------- sum_of_spreads

\* the divisor of the default step, max_t / 500.
DefaultDivisor == 500
\* coeff is -1..MaxCoeff
MaxCoeff == 1
\* min_t and max_t are 0..MaxT where the sweep's arguments are explored
MaxT == 3
\* an explicit step is -MaxStep..MaxStep where they are explored
MaxStep == 2
\* entries of a second matrix diff: rows * columns <= MaxDiffCells
MaxDiffCells == 1

\* Fractions <<numerator, denominator>>, denominator > 0.
FracEq(a, b) == a[1] * b[2] = b[1] * a[2]
FracLeq(a, b) == a[1] * b[2] <= b[1] * a[2]
FracAdd(a, b) ==
    IF a[2] = b[2] THEN <<a[1] + b[1], a[2]>>
    ELSE <<a[1] * b[2] + b[1] * a[2], a[2] * b[2]>>
FracSub(a, b) == FracAdd(a, <<0 - b[1], b[2]>>)

Abs(x) == IF x < 0 THEN 0 - x ELSE x

\* int(p / q) for q # 0: the quotient truncated towards zero.
TruncDiv(p, q) ==
    LET m == Abs(p) \div Abs(q) IN
    IF (p < 0) = (q < 0) THEN m ELSE 0 - m

\* Lines 76-77: step as a fraction, max_t / 500. when it is not supplied.
StepOf(a) ==
    IF a.step = None THEN <<a.max_t, DefaultDivisor>> ELSE <<a.step[1], 1>>

\* Line 78: n_steps = int((max_t - min_t) / step), for a step that is not 0.
NSteps(a) ==
    LET st == StepOf(a) IN TruncDiv((a.max_t - a.min_t) * st[2], st[1])

\* A mutant: num samples that leave out the end point, spaced
\* (stop - start) / num.
Linspace_NoEndpoint(start, stop, num) ==
    [i \in 1..num |-> <<start * num + (i - 1) * (stop - start), num>>]

\* np.linspace(start, stop, num) for num >= 0: no sample, start alone, or
\* num samples spaced (stop - start) / (num - 1).
Linspace(start, stop, num) ==
    IF num = 0 THEN <<>>
    ELSE IF num = 1 THEN <<<<start, 1>>>>
    ELSE [i \in 1..num |->
             <<start * (num - 1) + (i - 1) * (stop - start), num - 1>>]

\* Lines 76-79: the thresholds, or the exception raised on the way: a
\* division by a step of 0, or np.linspace refusing a negative num.
SweepOf(a) ==
    IF StepOf(a)[1] = 0 THEN Raised("ZeroDivisionError")
    ELSE IF NSteps(a) < 0 THEN Raised("ValueError")
    ELSE LET samples == Linspace(a.min_t, a.max_t, NSteps(a)) IN
         Value([i \in 1..Len(samples) |->
                   <<a.coeff * samples[i][1], samples[i][2]>>])

\* The element the comprehension of lines 80-84 builds for threshold t:
\* spread(d, t), or spread(d, t) - spread(diff, t) with d's call first.
\* A and B are the arrays behind d and diff, ref says which of them diff is
\* ("None": not supplied, "d": the same array as d).  Gives the arrays after
\* the calls and the element, or the exception a call raised.
SumTerm(A, B, ref, t) ==
    LET r1 == Spread(A, t) IN
    IF r1.outcome.kind = "error" \/ ref = "None"
    THEN [d |-> r1.heap, diff |-> B, outcome |-> r1.outcome]
    ELSE LET r2 == Spread(IF ref = "d" THEN r1.heap ELSE B, t) IN
         [d |-> IF ref = "d" THEN r2.heap ELSE r1.heap,
          diff |-> IF ref = "d" THEN B ELSE r2.heap,
          outcome |-> IF r2.outcome.kind = "error" THEN r2.outcome
                      ELSE Value(FracSub(r1.outcome.val, r2.outcome.val))]

\* sum_of_spreads computes its thresholds: lines 76-79.
SumSweep ==
    /\ pc = "sum_call"
    /\ LET sw == SweepOf(args) IN
          IF sw.kind = "error"
          THEN pc' = "sum_done" /\ outcome' = sw /\ UNCHANGED thresholds
          ELSE pc' = "sum_loop" /\ thresholds' = sw.val /\ UNCHANGED outcome
    /\ UNCHANGED <<rings, ring_atoms, n_ring_systems, mol, desc,
                   d, d_in, diff, diff_in, calls, args, n_done, acc>>

\* The comprehension takes the next threshold: lines 81 and 83.
SumStep ==
    /\ pc = "sum_loop"
    /\ n_done < Len(thresholds)
    /\ LET r == SumTerm(d, diff, args.diff, thresholds[n_done + 1]) IN
          /\ d' = r.d
          /\ diff' = r.diff
          /\ IF r.outcome.kind = "error"
             THEN pc' = "sum_done" /\ outcome' = r.outcome /\ UNCHANGED acc
             ELSE /\ acc' = FracAdd(acc, r.outcome.val)
                  /\ UNCHANGED <<pc, outcome>>
    /\ n_done' = n_done + 1
    /\ UNCHANGED <<rings, ring_atoms, n_ring_systems, mol, desc,
                   d_in, diff_in, calls, args, thresholds>>

\* np.sum of the finished list is returned: lines 80-84.
SumReturn ==
    /\ pc = "sum_loop"
    /\ n_done = Len(thresholds)
    /\ pc' = "sum_done"
    /\ outcome' = Value(acc)
    /\ UNCHANGED <<rings, ring_atoms, n_ring_systems, mol, desc,
                   d, d_in, diff, diff_in, calls, args, thresholds, n_done, acc>>

\* The state at a call sum_of_spreads(dm, a.coeff, a.min_t, a.max_t,
\* a.step, diff) where diff is None, dm itself or the array other.
SumCallState(dm, other, a) ==
    /\ pc = "sum_call"
    /\ rings = <<>>
    /\ ring_atoms = {}
    /\ n_ring_systems = 0
    /\ mol = NoMol
    /\ desc = <<>>
    /\ d = dm /\ d_in = dm
    /\ diff = other /\ diff_in = other
    /\ calls = <<>>
    /\ args = a
    /\ thresholds = <<>>
    /\ n_done = 0
    /\ acc = <<0, 1>>
    /\ outcome = NoOutcome

\* The sweeps sum_of_spreads is called with where the matrices are explored:
\* 0 samples, 1 sample, 2 samples and 3 samples.
SumSweeps ==
    {[min_t |-> 1, max_t |-> 1, step |-> <<1>>],
     [min_t |-> 0, max_t |-> 1, step |-> <<1>>],
     [min_t |-> 0, max_t |-> 2, step |-> <<1>>],
     [min_t |-> 0, max_t |-> 3, step |-> <<1>>]}

\* Calls that explore the matrices.
InitSum ==
    \E dm \in MatricesUpTo(MaxCells, MaxDist) :
    \E ref \in {"None", "d", "diff"} :
    \E other \in IF ref = "diff" THEN MatricesUpTo(MaxDiffCells, MaxDist)
                 ELSE {None} :
    \E sw \in SumSweeps :
    \E coeff \in (0 - 1)..MaxCoeff :
        SumCallState(dm, other,
                     [coeff |-> coeff, min_t |-> sw.min_t, max_t |-> sw.max_t,
                      step |-> sw.step, diff |-> ref])

\* Calls that explore coeff, min_t, max_t and step, on a matrix of one entry.
InitSweep ==
    \E dm \in MatricesUpTo(1, MaxDist) :
    \E ref \in {"None", "d"} :
    \E coeff \in (0 - 1)..MaxCoeff :
    \E lo \in 0..MaxT :
    \E hi \in 0..MaxT :
    \E st \in {None} \cup {<<v>> : v \in (0 - MaxStep)..MaxStep} :
        SumCallState(dm, None,
                     [coeff |-> coeff, min_t |-> lo, max_t |-> hi,
                      step |-> st, diff |-> ref])

NextSum == SumSweep \/ SumStep \/ SumReturn

SpecSweep == InitSweep /\ [][NextSum]_vars

NextSpatial == SpreadCall \/ SumSweep \/ SumStep \/ SumReturn

SpecSpatial == (InitSpread \/ InitSum) /\ [][NextSpatial]_vars

\* ---- the statistics as the specification words them

\* d is a self-comparison matrix: square, symmetric, zero diagonal.
SelfComparison(m) ==
    /\ NRows(m) = NCols(m)
    /\ \A i, j \in 1..NRows(m) : m[i][j] = m[j][i]
    /\ \A i \in 1..NRows(m) : m[i][i] = 0

\* The rows with an entry strictly below t, the diagonal entry left out of
\* a self-comparison matrix.
RowsBelow(m, t) ==
    {i \in 1..NRows(m) :
        \E j \in 1..NCols(m) :
            /\ (SelfComparison(m) => j # i)
            /\ m[i][j] * t[2] < t[1]}

\* The fraction of rows with an entry below t.
FractionBelow(m, t) == <<Cardinality(RowsBelow(m, t)), NRows(m)>>

\* A single row of two or more zeros: is_valid_dm accepts it through
\* broadcasting, and np.diag_indices_from then refuses its shape.
ZeroRow(m) ==
    /\ NRows(m) = 1
    /\ NCols(m) > 1
    /\ \A j \in 1..NCols(m) : m[1][j] = 0

\* C1: every call spread(d, t) returns the fraction of rows of d with an
\* entry strictly below t, a value in [0, 1], where for a square, symmetric,
\* zero-diagonal d the diagonal entries do not count.
C1_SpreadFraction ==
    pc = "spread" =>
        \A k \in 1..Len(calls) :
            /\ calls[k].outcome.kind = "value"
            /\ calls[k].outcome.val = FractionBelow(d_in, calls[k].t)
            /\ 0 <= calls[k].outcome.val[1]
            /\ calls[k].outcome.val[1] <= calls[k].outcome.val[2]

\* What holds of spread beside C1: the call raises on a single row of
\* zeros and returns the fraction of C1 on every other matrix.
Spread_ExceptZeroRow ==
    pc = "spread" =>
        \A k \in 1..Len(calls) :
            IF ZeroRow(d_in)
            THEN calls[k].outcome = Raised("ValueError")
            ELSE calls[k].outcome = Value(FractionBelow(d_in, calls[k].t))

\* C2: for calls on one matrix with thresholds t1 <= t2 the results satisfy
\* spread(d, t1) <= spread(d, t2), and the result for t = 0 is 0.
C2_Monotonic ==
    pc = "spread" =>
        /\ \A j, k \in 1..Len(calls) :
              FracLeq(calls[j].t, calls[k].t) =>
                  /\ calls[j].outcome.kind = "value"
                  /\ calls[k].outcome.kind = "value"
                  /\ FracLeq(calls[j].outcome.val, calls[k].outcome.val)
        /\ \A k \in 1..Len(calls) :
              calls[k].t[1] = 0 => calls[k].outcome = Value(<<0, NRows(d_in)>>)

\* What holds of C2: it holds of the calls that return.
Spread_MonotonicOnReturn ==
    pc = "spread" =>
        /\ \A j, k \in 1..Len(calls) :
              (/\ FracLeq(calls[j].t, calls[k].t)
               /\ calls[j].outcome.kind = "value"
               /\ calls[k].outcome.kind = "value")
                  => FracLeq(calls[j].outcome.val, calls[k].outcome.val)
        /\ \A k \in 1..Len(calls) :
              (calls[k].t[1] = 0 /\ calls[k].outcome.kind = "value")
                  => calls[k].outcome.val[1] = 0

\* The matrix passed as diff, as it was passed in.
DiffIn == IF args.diff = "d" THEN d_in ELSE diff_in

\* The term of threshold t: spread(d, t), less spread(diff, t) with a diff.
TermAt(t) ==
    IF args.diff = "None" THEN FractionBelow(d_in, t)
    ELSE FracSub(FractionBelow(d_in, t), FractionBelow(DiffIn, t))

RECURSIVE SumOfTerms(_)
\* The sum of the terms of the first n thresholds.
SumOfTerms(n) ==
    IF n = 0 THEN <<0, 1>>
    ELSE FracAdd(SumOfTerms(n - 1), TermAt(thresholds[n]))

\* The sweep was generated (no exception on the way to the thresholds).
Swept == pc = "sum_loop" \/ (pc = "sum_done" /\ SweepOf(args).kind = "value")

\* C3: sum_of_spreads returns the sum over the thresholds of its sweep of
\* spread(d, t), or of spread(d, t) - spread(diff, t) with a diff: the
\* number of thresholds when every spread(d, t) is 1 and there is no diff,
\* 0 when diff is d itself, 0 when the sweep is empty.
C3_SumOfSpreads ==
    (pc = "sum_done" /\ Swept) =>
        /\ outcome.kind = "value"
        /\ FracEq(outcome.val, SumOfTerms(Len(thresholds)))
        /\ (/\ args.diff = "None"
            /\ \A i \in 1..Len(thresholds) :
                  FracEq(FractionBelow(d_in, thresholds[i]), <<1, 1>>))
              => FracEq(outcome.val, <<Len(thresholds), 1>>)
        /\ args.diff = "d" => outcome.val[1] = 0
        /\ Len(thresholds) = 0 => outcome.val[1] = 0

\* What holds of C3: it holds unless d or diff is a single row of zeros
\* and the sweep has a threshold, where the call raises.
Sum_ExceptZeroRow ==
    (pc = "sum_done" /\ Swept) =>
        IF Len(thresholds) > 0
           /\ (ZeroRow(d_in) \/ (args.diff = "diff" /\ ZeroRow(diff_in)))
        THEN outcome = Raised("ValueError")
        ELSE /\ outcome.kind = "value"
             /\ FracEq(outcome.val, SumOfTerms(Len(thresholds)))
             /\ args.diff = "d" => outcome.val[1] = 0
             /\ Len(thresholds) = 0 => outcome.val[1] = 0

\* The step as a fraction: the one supplied, max_t / 500 otherwise.
StatedStep ==
    IF Len(args.step) = 0 THEN <<args.max_t, 500>> ELSE <<args.step[1], 1>>

\* The step is positive.
PositiveStep == StatedStep[1] > 0

\* floor((max_t - min_t) / step) for a positive step.
FloorSteps ==
    ((args.max_t - args.min_t) * StatedStep[2]) \div StatedStep[1]

\* Threshold i is coeff * x.
IsScaled(i, x) == FracEq(thresholds[i], <<args.coeff * x, 1>>)

\* The thresholds are evenly spaced.
EvenlySpaced ==
    \A i \in 2..(Len(thresholds) - 1) :
        FracEq(FracSub(thresholds[i], thresholds[i - 1]),
               FracSub(thresholds[i + 1], thresholds[i]))

\* The sweep has just been generated from min_t <= max_t and a positive step.
SweepCase ==
    /\ pc = "sum_loop"
    /\ n_done = 0
    /\ args.min_t <= args.max_t
    /\ PositiveStep

\* C4 as stated: the sweep has floor((max_t - min_t) / step) evenly spaced
\* points, and with one point or more both coeff * min_t and coeff * max_t
\* are among them.
C4_BothEndpoints ==
    SweepCase =>
        /\ Len(thresholds) = FloorSteps
        /\ EvenlySpaced
        /\ Len(thresholds) >= 1 =>
              /\ \E i \in 1..Len(thresholds) : IsScaled(i, args.min_t)
              /\ \E i \in 1..Len(thresholds) : IsScaled(i, args.max_t)

\* C4 amended: the sweep has floor((max_t - min_t) / step) evenly spaced
\* points; with two points or more the first is coeff * min_t and the last
\* is coeff * max_t; a sweep of one point is coeff * min_t alone.
C4_Sweep ==
    SweepCase =>
        /\ Len(thresholds) = FloorSteps
        /\ EvenlySpaced
        /\ Len(thresholds) >= 1 => IsScaled(1, args.min_t)
        /\ Len(thresholds) >= 2 => IsScaled(Len(thresholds), args.max_t)

\* C4 witness: one point from min_t < max_t with coeff # 0: coeff * min_t
\* is sampled and coeff * max_t is not.
C4_Witness ==
    /\ SweepCase
    /\ Len(thresholds) = 1
    /\ args.min_t < args.max_t
    /\ args.coeff # 0
    /\ IsScaled(1, args.min_t)
    /\ ~IsScaled(1, args.max_t)

\* C5: a call with a supplied step <= 0 ends in an error and returns no
\* number.
C5_NonPositiveStepFails ==
    (pc = "sum_done" /\ args.step # None /\ args.step[1] <= 0)
        => outcome.kind = "error"

\* What holds of a supplied step <= 0: the call raises exactly when the
\* step is 0 or (max_t - min_t) / step truncates to a negative number.
Sum_NonPositiveStep ==
    (pc = "sum_done" /\ args.step # None /\ args.step[1] <= 0) =>
        (outcome.kind = "error") <=>
            \/ args.step[1] = 0
            \/ args.max_t - args.min_t >= 0 - args.step[1]

\* C10: the caller's arrays hold the entries they were passed in with,
\* after every call of spread and at every point of sum_of_spreads, so a
\* zero diagonal is still zero for the next call.
C10_ArgumentsUnchanged ==
    pc \in {"spread", "sum_call", "sum_loop", "sum_done"} =>
        /\ d = d_in
        /\ diff = diff_in
        /\ SelfComparison(d_in) => SelfComparison(d)

\* C10 witness: sum_of_spreads has made its spread calls, two per
\* threshold, on one self-comparison matrix of two rows passed as d and as
\* diff.
C10_Witness ==
    /\ pc = "sum_done"
    /\ outcome.kind = "value"
    /\ args.diff = "d"
    /\ n_done = 3
    /\ SelfComparison(d_in)
    /\ NRows(d_in) = 2
    /\ d[1][1] = 0 /\ d[2][2] = 0

====
